---- MODULE Spec2Model ----
(***************************************************************************)
(* Model of Backend/server.js: the Express handlers GET /, POST /users and *)
(* POST /userlogin over the Mongoose User model and bcryptjs.              *)
(*                                                                         *)
(* Every asynchronous handler is cut at its store calls: the store         *)
(* completes the awaited call in one step, the handler's continuation runs *)
(* in the next.  Requests in flight interleave freely, as on the Node      *)
(* event loop.  Backend/model/user.js is not part of the sources; the      *)
(* schema (required fields, unique email, fields persisted as given) is    *)
(* taken from the specification's sections 3 and 4.1.                      *)
(***************************************************************************)
EXTENDS Naturals, Sequences, FiniteSets

\* Bound: number of HTTP requests issued in one behaviour.
MaxReqs == 2

\* A body field that is absent from the JSON body destructures to undefined.
None == "undefined"

Names == {"A"}
Emails == {"a@x.com", "b@x.com"}
MobileNos == {"555"}

\* bcryptjs hash strings and the plaintext each of them was derived from.
\* A hash string is an ordinary string: a client may send one as a password.
BcryptTable == { [hash |-> "$2a$10$secret1", of |-> "secret1"] }
HashStrings == { h.hash : h \in BcryptTable }
Passwords == {"secret1"} \cup HashStrings

VARIABLES conn, users, reqs, resps
vars == <<conn, users, reqs, resps>>

NoDoc == [id |-> 0, name |-> None, email |-> None, password |-> None, mobileNo |-> None]

----------------------------------------------------------------------------
\* Library and schema behaviour

\* bcrypt.compare(s, hash): rejects unless both are strings, answers false for
\* a hash argument that is not a bcrypt hash string, else whether hash is a
\* hash of s.
BcryptIllegal(s, hash) == s = None \/ hash = None

BcryptCompare(s, hash) ==
    /\ hash \in HashStrings
    /\ \E h \in BcryptTable : h.hash = hash /\ h.of = s

\* Schema validation run by save() before the insert.
Validate(doc) == doc.name # None /\ doc.email # None /\ doc.password # None

\* The unique index on email rejects the insert.
DuplicateKey(store, doc) == \E u \in store : u.email = doc.email

\* The document save() persists: the fields as the handler passed them.
Persisted(doc) == doc

\* User.findOne({email}): the matching documents (at most one is returned).
FindOne(store, email) == { u \in store : u.email = email }

----------------------------------------------------------------------------
\* Responses

Response(status, key, text, user) ==
    [status |-> status, key |-> key, text |-> text, user |-> user]

\* Variant: the catch block answers like the success path.
UsersResponse_Created(r) ==
    Response(201, "message", "User created successfully", r.user)

\* POST /users, line 41 and line 43.
UsersResponse(r) ==
    IF r.pc = "saved"
    THEN Response(201, "message", "User created successfully", r.user)
    ELSE Response(400, "error", r.err, NoDoc)

\* POST /userlogin, line 60, line 64 and line 66.
LoginResponse(r) ==
    IF r.pc = "catch" THEN Response(500, "error", r.err, NoDoc)
    ELSE IF ~r.isMatch THEN Response(400, "message", "Invalid credentials", NoDoc)
    ELSE Response(200, "message", "Logged in successfully", r.user)

\* POST /userlogin, line 58: the request after bcrypt.compare(password,
\* user.password) settled, rejected (pc "catch") or resolved to isMatch.
Compared(r) ==
    IF BcryptIllegal(r.body.password, r.user.password)
    THEN [r EXCEPT !.pc = "catch", !.compared = TRUE, !.err = "Illegal arguments"]
    ELSE [r EXCEPT !.pc = "compared", !.compared = TRUE,
                   !.isMatch = BcryptCompare(r.body.password, r.user.password)]

\* The (email, password) pairs whose registration has been answered with 201.
Created ==
    { <<reqs[i].body.email, reqs[i].body.password>> :
        i \in { j \in 1..Len(reqs) : /\ reqs[j].kind = "users"
                                     /\ \E k \in 1..Len(resps[j]) : resps[j][k].status = 201 } }

\* A request in flight: its body, the handler's position (pc) and locals
\* (user, err, isMatch), and what was true of the store when it arrived
\* (taken: a record with its email existed; prior: the registrations
\* already answered with 201).
Request(kind, body, pc, user, prior) ==
    [kind |-> kind, body |-> body, pc |-> pc, user |-> user, err |-> "",
     isMatch |-> FALSE, compared |-> FALSE, stored |-> FALSE,
     taken |-> (FindOne(users, body.email) # {}), prior |-> prior]

----------------------------------------------------------------------------
Init ==
    /\ conn = "connecting"
    /\ users = {}
    /\ reqs = <<>>
    /\ resps = <<>>

\* mongoose.connect(...).then / .catch, and the driver losing and
\* re-establishing the connection afterwards.  A failed first connect and a
\* lost connection are one state: operations issued in it time out.
ConnectOk == conn = "connecting" /\ conn' = "connected" /\ UNCHANGED <<users, reqs, resps>>
ConnectFail == conn = "connecting" /\ conn' = "disconnected" /\ UNCHANGED <<users, reqs, resps>>
ConnLost == conn = "connected" /\ conn' = "disconnected" /\ UNCHANGED <<users, reqs, resps>>
ConnRestored == conn = "disconnected" /\ conn' = "connected" /\ UNCHANGED <<users, reqs, resps>>

\* GET /
GetRoot ==
    /\ Len(reqs) < MaxReqs
    /\ reqs' = Append(reqs, Request("root", NoDoc, "done", NoDoc, {}))
    /\ resps' = Append(resps, <<Response(200, "text", "Server is running!", NoDoc)>>)
    /\ UNCHANGED <<conn, users>>

\* Variant: mobileNo is left out of the document that is built.
PostUsers_DropMobile(name, email, password, mobileNo) ==
    /\ Len(reqs) < MaxReqs
    /\ LET body == [id |-> 0, name |-> name, email |-> email,
                    password |-> password, mobileNo |-> mobileNo]
           user == [body EXCEPT !.id = Len(reqs) + 1, !.mobileNo = None]
       IN reqs' = Append(reqs, Request("users", body, "save", user, {}))
    /\ resps' = Append(resps, <<>>)
    /\ UNCHANGED <<conn, users>>

\* POST /users, lines 38-40 up to the await: new User({...}); user.save()
PostUsers(name, email, password, mobileNo) ==
    /\ Len(reqs) < MaxReqs
    /\ LET body == [id |-> 0, name |-> name, email |-> email,
                    password |-> password, mobileNo |-> mobileNo]
           user == [body EXCEPT !.id = Len(reqs) + 1]
       IN reqs' = Append(reqs, Request("users", body, "save", user, {}))
    /\ resps' = Append(resps, <<>>)
    /\ UNCHANGED <<conn, users>>

\* Variant: a save whose email exists replaces the existing record (upsert).
UserSave_Upsert(i) ==
    /\ i \in 1..Len(reqs)
    /\ reqs[i].kind = "users" /\ reqs[i].pc = "save"
    /\ LET r == reqs[i] IN
       IF ~Validate(r.user)
       THEN /\ reqs' = [reqs EXCEPT ![i].pc = "catch", ![i].err = "User validation failed"]
            /\ users' = users
       ELSE IF conn # "connected"
       THEN /\ reqs' = [reqs EXCEPT ![i].pc = "catch", ![i].err = "buffering timed out"]
            /\ users' = users
       ELSE IF DuplicateKey(users, r.user)
       THEN /\ reqs' = [reqs EXCEPT ![i].pc = "catch", ![i].err = "E11000 duplicate key error"]
            /\ users' = { u \in users : u.email # r.user.email } \cup {Persisted(r.user)}
       ELSE /\ reqs' = [reqs EXCEPT ![i].pc = "saved", ![i].user = Persisted(r.user),
                                    ![i].stored = TRUE]
            /\ users' = users \cup {Persisted(r.user)}
    /\ UNCHANGED <<conn, resps>>

\* user.save() completes: validation error, duplicate key, insert, or the
\* operation times out because there is no connection.
UserSave(i) ==
    /\ i \in 1..Len(reqs)
    /\ reqs[i].kind = "users" /\ reqs[i].pc = "save"
    /\ LET r == reqs[i] IN
       IF ~Validate(r.user)
       THEN /\ reqs' = [reqs EXCEPT ![i].pc = "catch", ![i].err = "User validation failed"]
            /\ users' = users
       ELSE IF conn # "connected"
       THEN /\ reqs' = [reqs EXCEPT ![i].pc = "catch", ![i].err = "buffering timed out"]
            /\ users' = users
       ELSE IF DuplicateKey(users, r.user)
       THEN /\ reqs' = [reqs EXCEPT ![i].pc = "catch", ![i].err = "E11000 duplicate key error"]
            /\ users' = users
       ELSE /\ reqs' = [reqs EXCEPT ![i].pc = "saved", ![i].user = Persisted(r.user),
                                    ![i].stored = TRUE]
            /\ users' = users \cup {Persisted(r.user)}
    /\ UNCHANGED <<conn, resps>>

\* POST /users, line 41 or the catch at line 43
UsersRespond(i) ==
    /\ i \in 1..Len(reqs)
    /\ reqs[i].kind = "users" /\ reqs[i].pc \in {"saved", "catch"}
    /\ resps' = [resps EXCEPT ![i] = Append(@, UsersResponse(reqs[i]))]
    /\ reqs' = [reqs EXCEPT ![i].pc = "done"]
    /\ UNCHANGED <<conn, users>>

\* POST /userlogin, lines 49-52 up to the await: User.findOne({ email })
PostUserLogin(email, password) ==
    /\ Len(reqs) < MaxReqs
    /\ LET body == [id |-> 0, name |-> None, email |-> email,
                    password |-> password, mobileNo |-> None]
       IN reqs' = Append(reqs, Request("userlogin", body, "find", NoDoc, Created))
    /\ resps' = Append(resps, <<>>)
    /\ UNCHANGED <<conn, users>>

\* Variant: the lookup removes the document it returns (findOneAndDelete).
LoginFind_Delete(i) ==
    /\ i \in 1..Len(reqs)
    /\ reqs[i].kind = "userlogin" /\ reqs[i].pc = "find"
    /\ IF conn # "connected"
       THEN /\ reqs' = [reqs EXCEPT ![i].pc = "catch", ![i].err = "buffering timed out"]
            /\ users' = users
       ELSE IF FindOne(users, reqs[i].body.email) = {}
       THEN /\ reqs' = [reqs EXCEPT ![i].pc = "found"]
            /\ users' = users
       ELSE \E u \in FindOne(users, reqs[i].body.email) :
                /\ reqs' = [reqs EXCEPT ![i].pc = "found", ![i].user = u]
                /\ users' = users \ {u}
    /\ UNCHANGED <<conn, resps>>

\* User.findOne completes: a document, null, or a timeout without connection.
LoginFind(i) ==
    /\ i \in 1..Len(reqs)
    /\ reqs[i].kind = "userlogin" /\ reqs[i].pc = "find"
    /\ IF conn # "connected"
       THEN reqs' = [reqs EXCEPT ![i].pc = "catch", ![i].err = "buffering timed out"]
       ELSE IF FindOne(users, reqs[i].body.email) = {}
       THEN reqs' = [reqs EXCEPT ![i].pc = "found"]
       ELSE \E u \in FindOne(users, reqs[i].body.email) :
                reqs' = [reqs EXCEPT ![i].pc = "found", ![i].user = u]
    /\ UNCHANGED <<conn, users, resps>>

\* Variant: the null check is missing; user.password is read from null.
LoginCheckUser_NoNullCheck(i) ==
    /\ i \in 1..Len(reqs)
    /\ reqs[i].kind = "userlogin" /\ reqs[i].pc = "found"
    /\ LET r == Compared(reqs[i])
       IN /\ resps' = [resps EXCEPT ![i] = Append(@, LoginResponse(r))]
          /\ reqs' = [reqs EXCEPT ![i] = [r EXCEPT !.pc = "done"]]
    /\ UNCHANGED <<conn, users>>

\* Variant: the not-found branch answers but does not return; reading
\* user.password from null then throws into the catch block, which answers
\* again.
LoginCheckUser_NoReturn(i) ==
    /\ i \in 1..Len(reqs)
    /\ reqs[i].kind = "userlogin" /\ reqs[i].pc = "found"
    /\ IF reqs[i].user = NoDoc
       THEN LET r == [reqs[i] EXCEPT !.pc = "catch", !.err = "Cannot read properties of null"]
            IN /\ resps' = [resps EXCEPT ![i] =
                               Append(Append(@, Response(400, "message", "User not found", NoDoc)),
                                      LoginResponse(r))]
               /\ reqs' = [reqs EXCEPT ![i] = [r EXCEPT !.pc = "done"]]
       ELSE LET r == Compared(reqs[i])
            IN /\ resps' = [resps EXCEPT ![i] = Append(@, LoginResponse(r))]
               /\ reqs' = [reqs EXCEPT ![i] = [r EXCEPT !.pc = "done"]]
    /\ UNCHANGED <<conn, users>>

\* POST /userlogin, lines 53-64 after findOne resolved: the null check, then
\* bcrypt.compare (a computation on the request's own values) and the answer
\* that follows from its result, the catch at line 66 if it rejects.
LoginCheckUser(i) ==
    /\ i \in 1..Len(reqs)
    /\ reqs[i].kind = "userlogin" /\ reqs[i].pc = "found"
    /\ IF reqs[i].user = NoDoc
       THEN /\ resps' = [resps EXCEPT ![i] =
                            Append(@, Response(400, "message", "User not found", NoDoc))]
            /\ reqs' = [reqs EXCEPT ![i].pc = "done"]
       ELSE LET r == Compared(reqs[i])
            IN /\ resps' = [resps EXCEPT ![i] = Append(@, LoginResponse(r))]
               /\ reqs' = [reqs EXCEPT ![i] = [r EXCEPT !.pc = "done"]]
    /\ UNCHANGED <<conn, users>>

\* POST /userlogin, the catch at lines 65-67 after findOne rejected
LoginRespond(i) ==
    /\ i \in 1..Len(reqs)
    /\ reqs[i].kind = "userlogin" /\ reqs[i].pc = "catch"
    /\ resps' = [resps EXCEPT ![i] = Append(@, LoginResponse(reqs[i]))]
    /\ reqs' = [reqs EXCEPT ![i].pc = "done"]
    /\ UNCHANGED <<conn, users>>

\* One step of the handler serving request i.
Step(i) ==
    \/ UserSave(i)
    \/ UsersRespond(i)
    \/ LoginFind(i)
    \/ LoginCheckUser(i)
    \/ LoginRespond(i)

Next ==
    \/ ConnectOk
    \/ ConnectFail
    \/ ConnLost
    \/ ConnRestored
    \/ GetRoot
    \/ \E n \in Names, e \in Emails \cup {None}, p \in Passwords, m \in MobileNos :
           PostUsers(n, e, p, m)
    \/ \E e \in Emails, p \in Passwords \cup {None} : PostUserLogin(e, p)
    \/ \E i \in 1..MaxReqs : UserSave(i)
    \/ \E i \in 1..MaxReqs : UsersRespond(i)
    \/ \E i \in 1..MaxReqs : LoginFind(i)
    \/ \E i \in 1..MaxReqs : LoginCheckUser(i)
    \/ \E i \in 1..MaxReqs : LoginRespond(i)

Spec == Init /\ [][Next]_vars

\* The event loop runs a continuation that is ready, and an awaited store
\* call completes (with a result or an error): some pending handler step is
\* eventually taken.
LiveSpec == Spec /\ WF_vars(\E i \in 1..MaxReqs : Step(i))


----------------------------------------------------------------------------
\* Properties

Ids == 1..Len(reqs)
Answered(i) == Len(resps[i]) > 0
StoreFailed(i) == reqs[i].err = "buffering timed out"
\* The request that created a persisted record.
Creator(u) == reqs[u.id]

\* C1: once POST /users {e, p} has been answered 201, a later POST
\* /userlogin {e, p} is answered 200 "Logged in successfully" with the user
\* record (a lookup that fails on the connection is the case of C8).
C1_LoginAfterRegister ==
    \A i \in Ids :
        ( /\ reqs[i].kind = "userlogin"
          /\ <<reqs[i].body.email, reqs[i].body.password>> \in reqs[i].prior
          /\ Answered(i)
          /\ ~StoreFailed(i) )
        => /\ resps[i][1].status = 200
           /\ resps[i][1].text = "Logged in successfully"
           /\ resps[i][1].user.email = reqs[i].body.email

\* C2: the password of every persisted record is a hash of the password
\* supplied in the POST /users request that created it, never that plaintext.
C2_PasswordHashed ==
    \A u \in users :
        /\ u.password # Creator(u).body.password
        /\ \E h \in BcryptTable : h.hash = u.password /\ h.of = Creator(u).body.password

\* C3: the store holds at most one record per email, and of the
\* registrations carrying one email at most one is answered 201.
C3_UniqueEmail ==
    /\ \A u, v \in users : u.email = v.email => u = v
    /\ \A i, j \in Ids :
        ( /\ reqs[i].kind = "users" /\ reqs[j].kind = "users"
          /\ reqs[i].body.email = reqs[j].body.email
          /\ Answered(i) /\ resps[i][1].status = 201
          /\ Answered(j) /\ resps[j][1].status = 201 )
        => i = j

\* Two registrations with one email overlap: the first has inserted its
\* record and is not answered yet while the second's insert was rejected.
C3_Witness ==
    \E i, j \in Ids :
        /\ i # j
        /\ reqs[i].kind = "users" /\ reqs[j].kind = "users"
        /\ reqs[i].body.email = reqs[j].body.email
        /\ reqs[i].pc = "saved" /\ ~Answered(i)
        /\ ~reqs[j].taken
        /\ reqs[j].err = "E11000 duplicate key error"

\* C4: a POST /users whose email already belongs to a persisted record is
\* answered 400 {error: message} and leaves the store unchanged: no record
\* is added, the existing record keeps its fields.
C4_DuplicateInv ==
    \A i \in Ids :
        (reqs[i].kind = "users" /\ reqs[i].taken)
        => /\ ~reqs[i].stored
           /\ \A u \in users : u.id # i
           /\ Answered(i) =>
                /\ resps[i] = <<Response(400, "error", reqs[i].err, NoDoc)>>
                /\ reqs[i].err # ""

C4_DuplicateStep ==
    \A i \in Ids :
        ( /\ reqs[i].kind = "users" /\ reqs[i].taken
          /\ reqs'[i] # reqs[i] )
        => users' = users

C4_DuplicateRejected == []C4_DuplicateInv /\ [][C4_DuplicateStep]_vars

\* A registration whose email was taken when it arrived has been answered,
\* its insert rejected by the store.
C4_Witness ==
    \E i \in Ids :
        /\ reqs[i].kind = "users" /\ reqs[i].taken
        /\ reqs[i].err = "E11000 duplicate key error"
        /\ Answered(i)

\* C5 as stated: a POST /users with all required fields whose email is not
\* in the store is answered 201 and its record is in the store.
C5_Original ==
    \A i \in Ids :
        ( /\ reqs[i].kind = "users"
          /\ Validate(reqs[i].body)
          /\ ~reqs[i].taken
          /\ Answered(i) )
        => /\ resps[i][1].status = 201
           /\ \E u \in users : u.id = i

\* C5 (amended): a POST /users with all required fields whose save reaches
\* the connected store while no record has its email adds exactly one
\* record, with the request's name, email and mobileNo, leaves all other
\* records unchanged, and is answered 201 {message, user}.
C5_CreatedInv ==
    \A i \in Ids :
        (reqs[i].kind = "users" /\ reqs[i].stored)
        => /\ \E u \in users :
                /\ u.id = i
                /\ u.name = reqs[i].body.name
                /\ u.email = reqs[i].body.email
                /\ u.mobileNo = reqs[i].body.mobileNo
                /\ \A v \in users : v.email = u.email => v = u
           /\ Answered(i) =>
                /\ Len(resps[i]) = 1
                /\ resps[i][1].status = 201
                /\ resps[i][1].key = "message"
                /\ resps[i][1].user \in users
                /\ resps[i][1].user.id = i

C5_CreatedStep ==
    \A i \in Ids :
        ( /\ reqs[i].kind = "users" /\ reqs[i].pc = "save"
          /\ Validate(reqs[i].body)
          /\ conn = "connected"
          /\ FindOne(users, reqs[i].body.email) = {}
          /\ reqs'[i] # reqs[i] )
        => /\ reqs'[i].stored
           /\ \E u \in users' : u.id = i /\ u \notin users /\ users' = users \cup {u}

C5_Created == []C5_CreatedInv /\ [][C5_CreatedStep]_vars

\* A second record has been created next to an existing one and answered.
C5_Witness ==
    \E i \in Ids :
        /\ reqs[i].kind = "users" /\ reqs[i].stored
        /\ Answered(i)
        /\ Cardinality(users) = 2

\* C6 as stated: a POST /userlogin whose email has no record is answered
\* 400 "User not found" and no comparison is performed.
C6_Original ==
    \A i \in Ids :
        ( /\ reqs[i].kind = "userlogin"
          /\ ~reqs[i].taken
          /\ Answered(i) )
        => /\ resps[i] = <<Response(400, "message", "User not found", NoDoc)>>
           /\ ~reqs[i].compared

\* C6 (amended): a POST /userlogin whose lookup completes and finds no
\* record for the email is answered 400 "User not found", for every
\* password, and no comparison is performed.
C6_NotFoundInv ==
    \A i \in Ids :
        ( /\ reqs[i].kind = "userlogin"
          /\ reqs[i].pc \in {"found", "catch", "done"}
          /\ reqs[i].user = NoDoc
          /\ ~StoreFailed(i) )
        => /\ ~reqs[i].compared
           /\ reqs[i].err = ""
           /\ reqs[i].pc \in {"found", "done"}
           /\ reqs[i].pc = "done" =>
                resps[i] = <<Response(400, "message", "User not found", NoDoc)>>

C6_NotFoundStep ==
    \A i \in Ids :
        ( /\ reqs[i].kind = "userlogin" /\ reqs[i].pc = "find"
          /\ conn = "connected"
          /\ FindOne(users, reqs[i].body.email) = {}
          /\ reqs'[i] # reqs[i] )
        => reqs'[i].pc = "found" /\ reqs'[i].user = NoDoc /\ reqs'[i].err = ""

C6_NotFound == []C6_NotFoundInv /\ [][C6_NotFoundStep]_vars

\* A login for an email without record has been answered while another
\* email has a record.
C6_Witness ==
    \E i \in Ids :
        /\ reqs[i].kind = "userlogin" /\ reqs[i].pc = "done"
        /\ reqs[i].user = NoDoc /\ ~StoreFailed(i)
        /\ users # {}

\* C7: a POST /userlogin whose email has a record and whose password
\* differs from the one supplied at registration is answered 400 "Invalid
\* credentials".
C7_WrongPassword ==
    \A i \in Ids :
        ( /\ reqs[i].kind = "userlogin"
          /\ reqs[i].user # NoDoc
          /\ reqs[i].body.password # None
          /\ reqs[i].body.password # Creator(reqs[i].user).body.password
          /\ Answered(i) )
        => resps[i] = <<Response(400, "message", "Invalid credentials", NoDoc)>>

\* C8: a store call that fails on the connection, in POST /users or POST
\* /userlogin, is answered 500 with the raw error message.
C8_StoreFailure500 ==
    \A i \in Ids :
        (StoreFailed(i) /\ Answered(i))
        => resps[i] = <<Response(500, "error", reqs[i].err, NoDoc)>>

\* C9: POST /userlogin and GET / never change the store, no step removes
\* or modifies a record, and the store grows only by the insert of a POST
\* /users, which is then answered 201.
C9_FrameStep ==
    /\ users \subseteq users'
    /\ users' # users =>
        \E i \in Ids :
            /\ reqs[i].kind = "users" /\ reqs[i].pc = "save"
            /\ reqs'[i].pc = "saved"
            /\ users' = users \cup {reqs'[i].user}

C9_FrameInv ==
    \A u \in users :
        /\ u.id \in Ids
        /\ Creator(u).kind = "users"
        /\ Answered(u.id) => resps[u.id][1].status = 201

C9_StoreOnlyGrows == []C9_FrameInv /\ [][C9_FrameStep]_vars

\* A login that found a record has been answered and the record is there.
C9_Witness ==
    \E i \in Ids :
        /\ reqs[i].kind = "userlogin" /\ reqs[i].pc = "done"
        /\ reqs[i].user # NoDoc
        /\ reqs[i].user \in users

\* C10: every POST /users and POST /userlogin whose store call completes is
\* eventually answered, with exactly one response; no path sends two or
\* ends without one; a failure body has an error or a message key.
C10_OneResponseInv ==
    \A i \in Ids :
        /\ Len(resps[i]) <= 1
        /\ reqs[i].pc = "done" <=> Len(resps[i]) = 1
        /\ \A k \in 1..Len(resps[i]) :
            resps[i][k].status \notin {200, 201} =>
                /\ resps[i][k].status \in {400, 500}
                /\ resps[i][k].key \in {"error", "message"}

\* Every request issued so far has its one response.
C10_AllAnswered == \A i \in Ids : reqs[i].pc = "done" /\ Len(resps[i]) = 1

C10_ExactlyOneResponse == []C10_OneResponseInv /\ []<>C10_AllAnswered

\* Both a failed login and a failed registration have been answered.
C10_Witness ==
    \E i, j \in Ids :
        /\ reqs[i].kind = "userlogin" /\ reqs[i].pc = "done"
        /\ resps[i][1].status \in {400, 500}
        /\ reqs[j].kind = "users" /\ reqs[j].pc = "done"
        /\ resps[j][1].status = 400
====
